---- MODULE Spec2Model ----
(***************************************************************************)
(* LWC (LoFi Wanderings, C++ port): the oriented Position algebra, the     *)
(* Map wall / passability tables, the GameState movement rules, the wall   *)
(* sprite sets, the corridor renderer and the mini-map.                    *)
(*                                                                         *)
(* The specifications share the variables:                                 *)
(*   Spec      the game state: a GameState is constructed, StartNewGame()  *)
(*             builds the 10x10 mockup, then moves and turns.              *)
(*   SpecMap   a Map of small dimensions, reset by ClearMap(), edited by   *)
(*             MakeNormalWall / RemoveWall with every cell and face.       *)
(*   SpecWalk  such a Map with a player moving and turning on it.          *)
(*   SpecQuery the query methods of Map and WallSpriteSet on such a Map.   *)
(*   SpecView  the engine: Initialize(), then Execute() moving the player  *)
(*             and drawing the corridor view and the mini-map.             *)
(*   SpecPosition  the methods of Position, applied one after the other.   *)
(*   SpecLoop  the main loop of Engine::Execute: key events, the player    *)
(*             motion counter and the moves it lets through.               *)
(***************************************************************************)
EXTENDS Integers, Sequences, FiniteSets, TLC

VARIABLES
    build,           \* what a store outside the tables does (see Builds)
    currentMap,      \* GameState::currentMap_ : the Map object, or null
    playerPosition,  \* GameState::playerPosition_
    last,            \* the operation executed last, its arguments and result
    edits,           \* number of wall edits issued so far
    allWallSprites,  \* ArtManager::allWallSprites_ : the wall sprite sets
    loop             \* the locals of Engine::Execute (see ExecuteLocals)

vars == <<build, currentMap, playerPosition, last, edits, allWallSprites,
          loop>>

----------------------------------------------------------------------------
(* Bounds of SpecMap *)

\* the maps have width + height <= MaxExtent (1x1, 1x2 and 2x1)
MaxExtent    == 3
\* wall edits per run of SpecMap, and per run of SpecWalk
MaxEdits     == 2
MaxWalkEdits == 1
\* the wall ids SpecMap hands to MakeNormalWall are 1 .. MaxWallID
MaxWallID    == 1

----------------------------------------------------------------------------
(* Constants of lwc.h (Map.h) *)

PLAYER_FACING_NORTH == 0
PLAYER_FACING_EAST  == 1
PLAYER_FACING_SOUTH == 2
PLAYER_FACING_WEST  == 3

WALL_FACING_EAST    == 1
WALL_FACING_WEST    == 3
WALL_FACING_NORTH   == 4
WALL_FACING_SOUTH   == 2

WALL_TYPE_STONE     == 2

MockupSize          == 10

(* Constants of Engine::Execute *)

MOTIONBUTTON_UP          == 0
MOTIONBUTTON_DOWN        == 1
MOTIONBUTTON_STRAFELEFT  == 2
MOTIONBUTTON_STRAFERIGHT == 3

playerMotionDelay        == 10
actionMessageClearDelay  == 50

MotionButtons == {MOTIONBUTTON_UP, MOTIONBUTTON_DOWN,
                  MOTIONBUTTON_STRAFELEFT, MOTIONBUTTON_STRAFERIGHT}

\* the locals of Engine::Execute when the main loop is entered; iteration
\* counts the passes of the loop body made so far, events the events polled
\* so far, and attempted[button] is the pass in which the move of that
\* button was last called (0: never)
ExecuteLocals ==
    [motionButtonDown          |-> [button \in MotionButtons |-> FALSE],
     playerMotionCounter       |-> playerMotionDelay,
     actionMessageClearCounter |-> actionMessageClearDelay,
     requestUpdateDisplay      |-> TRUE,
     iteration                 |-> 0,
     events                    |-> 0,
     attempted                 |-> [button \in MotionButtons |-> 0]]

\* the four slots of one `new int [4]` / `new bool [4]` block
FaceSlots == 0 .. 3

\* the facing values handed to MakeNormalWall / RemoveWall: the four slots
\* and WALL_FACING_NORTH
WallFacings == {WALL_FACING_NORTH, WALL_FACING_EAST, WALL_FACING_SOUTH,
                WALL_FACING_WEST, PLAYER_FACING_NORTH}

(***************************************************************************)
(* A store to slot [facing] with facing outside 0..3, or to a row / column *)
(* outside the allocated pointer arrays, is undefined behaviour.  The      *)
(* outcomes a build can produce:                                           *)
(*   "padding"   the store lands in allocator padding behind the block;    *)
(*               no table entry changes.                                   *)
(*   "adjacent"  the int[4] blocks of one row are laid out back to back    *)
(*               (ClearMap allocates them consecutively), so slot [4] of   *)
(*               column c is slot [0] of column c + 1; the bool[4] blocks  *)
(*               are padded to the allocator's minimum size.               *)
(*   "trap"      an instrumented build aborts the process at the store.    *)
(* The outcome is a property of the build: it is the same at every such    *)
(* store of one run.  build is "undetermined" until the first of them.     *)
(***************************************************************************)
Builds == {"padding", "adjacent", "trap"}

----------------------------------------------------------------------------
(* Position *)

Position(x, y, facing) == [x |-> x, y |-> y, facing |-> facing]

GetLeftFacingOfThis(p) == Position(p.x, p.y, (p.facing + 3) % 4)

\* variant: the facing is not reduced modulo 4
GetRightFacingOfThis_NoWrap(p) == Position(p.x, p.y, p.facing + 1)

GetRightFacingOfThis(p) == Position(p.x, p.y, (p.facing + 1) % 4)

\* variant: the offsets of GetPositionRightOfThis
GetPositionLeftOfThis_Mirrored(p, steps) ==
    LET xOffset == CASE p.facing = 0 -> steps
                     [] p.facing = 2 -> (-1) * steps
                     [] OTHER        -> 0
        yOffset == CASE p.facing = 1 -> steps
                     [] p.facing = 3 -> (-1) * steps
                     [] OTHER        -> 0
    IN  Position(p.x + xOffset, p.y + yOffset, p.facing)

GetPositionLeftOfThis(p, steps) ==
    LET xOffset == CASE p.facing = 0 -> (-1) * steps
                     [] p.facing = 2 -> steps
                     [] OTHER        -> 0
        yOffset == CASE p.facing = 1 -> (-1) * steps
                     [] p.facing = 3 -> steps
                     [] OTHER        -> 0
    IN  Position(p.x + xOffset, p.y + yOffset, p.facing)

GetPositionRightOfThis(p, steps) ==
    LET xOffset == CASE p.facing = 0 -> steps
                     [] p.facing = 2 -> (-1) * steps
                     [] OTHER        -> 0
        yOffset == CASE p.facing = 1 -> steps
                     [] p.facing = 3 -> (-1) * steps
                     [] OTHER        -> 0
    IN  Position(p.x + xOffset, p.y + yOffset, p.facing)

\* variant: the North and South cases exchanged
GetPositionAheadOfThis_NorthSouthSwapped(p, steps) ==
    LET xOffset == CASE p.facing = 1 -> steps
                     [] p.facing = 3 -> (-1) * steps
                     [] OTHER        -> 0
        yOffset == CASE p.facing = 0 -> steps
                     [] p.facing = 2 -> (-1) * steps
                     [] OTHER        -> 0
    IN  Position(p.x + xOffset, p.y + yOffset, p.facing)

GetPositionAheadOfThis(p, steps) ==
    LET xOffset == CASE p.facing = 1 -> steps
                     [] p.facing = 3 -> (-1) * steps
                     [] OTHER        -> 0
        yOffset == CASE p.facing = 0 -> (-1) * steps
                     [] p.facing = 2 -> steps
                     [] OTHER        -> 0
    IN  Position(p.x + xOffset, p.y + yOffset, p.facing)

\* variant: the East and West cases step as GetPositionAheadOfThis does
GetPositionBehindThis_EastWestAhead(p, steps) ==
    LET xOffset == CASE p.facing = 1 -> steps
                     [] p.facing = 3 -> (-1) * steps
                     [] OTHER        -> 0
        yOffset == CASE p.facing = 0 -> steps
                     [] p.facing = 2 -> (-1) * steps
                     [] OTHER        -> 0
    IN  Position(p.x + xOffset, p.y + yOffset, p.facing)

GetPositionBehindThis(p, steps) ==
    LET xOffset == CASE p.facing = 1 -> (-1) * steps
                     [] p.facing = 3 -> steps
                     [] OTHER        -> 0
        yOffset == CASE p.facing = 0 -> steps
                     [] p.facing = 2 -> (-1) * steps
                     [] OTHER        -> 0
    IN  Position(p.x + xOffset, p.y + yOffset, p.facing)

InBounds(p, left, top, right, bottom, inclusive) ==
    IF ~inclusive
    THEN p.x > left /\ p.y > top /\ p.x < right /\ p.y < bottom
    ELSE p.x >= left /\ p.y >= top /\ p.x <= right /\ p.y <= bottom

----------------------------------------------------------------------------
(* Map.  A Map object is a record; walls and passibility are functions on  *)
(* <<row, column, slot>>, the allocated height x width x 4 entries.        *)
(* stray collects the stores issued outside the allocated entries, fault   *)
(* says that the process died in such a store.                             *)

Slots(width, height) == (0 .. height - 1) \X (0 .. width - 1) \X FaceSlots

\* Map::Map() : every member zero
NewMap ==
    [null |-> FALSE, width |-> 0, height |-> 0,
     walls |-> [s \in {} |-> 0], passibility |-> [s \in {} |-> FALSE],
     startingPoints |-> <<>>, stray |-> {}, fault |-> FALSE]

\* GameState::currentMap_ == 0
NullMap == [NewMap EXCEPT !.null = TRUE]

InGrid(m, x, y) == x >= 0 /\ x < m.width /\ y >= 0 /\ y < m.height

GetWallForCoordinate(m, position) ==
    IF InGrid(m, position.x, position.y)
    THEN m.walls[<<position.y, position.x, position.facing>>]
    ELSE 0

\* variant: a cell outside the grid can be entered
CanPassWallForCoordinate_OpenOutside(m, position) ==
    IF InGrid(m, position.x, position.y)
    THEN m.passibility[<<position.y, position.x, position.facing>>]
    ELSE TRUE

CanPassWallForCoordinate(m, position) ==
    IF InGrid(m, position.x, position.y)
    THEN m.passibility[<<position.y, position.x, position.facing>>]
    ELSE FALSE

\* variant: the index test is  which < 0
GetStartingPoint_Strict(m, which) ==
    IF m.startingPoints # <<>> /\ which < 0
    THEN m.startingPoints[which + 1]
    ELSE Position(0, 0, 0)

GetStartingPoint(m, which) ==
    IF m.startingPoints # <<>> /\ which < 1
    THEN m.startingPoints[which + 1]
    ELSE Position(0, 0, 0)

\* the pair of stores  walls_[row][column][slot] = wallID;
\*                     passibility_[row][column][slot] = pass;
StoreFace(m, bld, row, column, slot, wallID, pass) ==
    IF m.fault THEN m
    ELSE IF <<row, column, slot>> \in Slots(m.width, m.height)
    THEN [m EXCEPT !.walls[<<row, column, slot>>] = wallID,
                   !.passibility[<<row, column, slot>>] = pass]
    ELSE IF bld = "trap"
    THEN [m EXCEPT !.fault = TRUE]
    ELSE IF /\ bld = "adjacent"
            /\ slot = 4
            /\ <<row, column + 1, 0>> \in Slots(m.width, m.height)
    THEN [m EXCEPT !.walls[<<row, column + 1, 0>>] = wallID,
                   !.stray = @ \cup {<<row, column, slot>>}]
    ELSE [m EXCEPT !.stray = @ \cup {<<row, column, slot>>}]

\* variant: the east edge is looked for one column past the grid
ClearMap_EastEdgeOffByOne(m) ==
    [m EXCEPT
       !.walls = [s \in Slots(m.width, m.height) |-> 0],
       !.passibility =
           [s \in Slots(m.width, m.height) |->
               CASE s[3] = 3 -> ~(0 = s[2])
                 [] s[3] = 0 -> ~(0 = s[1])
                 [] s[3] = 1 -> ~(m.width = s[2])
                 [] s[3] = 2 -> ~(m.height - 1 = s[1])],
       !.startingPoints = <<>>]

ClearMap(m) ==
    [m EXCEPT
       !.walls = [s \in Slots(m.width, m.height) |-> 0],
       !.passibility =
           [s \in Slots(m.width, m.height) |->
               CASE s[3] = 3 -> ~(0 = s[2])
                 [] s[3] = 0 -> ~(0 = s[1])
                 [] s[3] = 1 -> ~(m.width - 1 = s[2])
                 [] s[3] = 2 -> ~(m.height - 1 = s[1])],
       !.startingPoints = <<>>]

\* variant: the neighbour's face is written with the facing of position
\* itself, not the opposite one
MakeNormalWall_SameFace(m, bld, position, wallID) ==
    LET own           == StoreFace(m, bld, position.y, position.x,
                                   position.facing, wallID, FALSE)
        positionAhead == GetPositionAheadOfThis(position, 1)
        newFacing     == position.facing
    IN  IF InBounds(positionAhead, 0, 0, m.width, m.height, TRUE)
        THEN StoreFace(own, bld, positionAhead.y, positionAhead.x,
                       newFacing, wallID, FALSE)
        ELSE own

\* variant: only the face of position itself is written
MakeNormalWall_OneSided(m, bld, position, wallID) ==
    StoreFace(m, bld, position.y, position.x, position.facing, wallID, FALSE)

\* variant: the face across the boundary gets the wall id but stays passable
MakeNormalWall_FarSideOpen(m, bld, position, wallID) ==
    LET own           == StoreFace(m, bld, position.y, position.x,
                                   position.facing, wallID, FALSE)
        positionAhead == GetPositionAheadOfThis(position, 1)
        newFacing     == (position.facing + 2) % 4
    IN  IF InBounds(positionAhead, 0, 0, m.width, m.height, TRUE)
        THEN StoreFace(own, bld, positionAhead.y, positionAhead.x,
                       newFacing, wallID, TRUE)
        ELSE own

MakeNormalWall(m, bld, position, wallID) ==
    LET own           == StoreFace(m, bld, position.y, position.x,
                                   position.facing, wallID, FALSE)
        positionAhead == GetPositionAheadOfThis(position, 1)
        newFacing     == (position.facing + 2) % 4
    IN  IF InBounds(positionAhead, 0, 0, m.width, m.height, TRUE)
        THEN StoreFace(own, bld, positionAhead.y, positionAhead.x,
                       newFacing, wallID, FALSE)
        ELSE own

\* variant: the neighbour's face is cleared with the facing of position
\* itself, not the opposite one
RemoveWall_SameFace(m, bld, position) ==
    LET own           == StoreFace(m, bld, position.y, position.x,
                                   position.facing, 0, TRUE)
        positionAhead == GetPositionAheadOfThis(position, 1)
        newFacing     == position.facing
    IN  IF InBounds(positionAhead, 0, 0, m.width, m.height, TRUE)
        THEN StoreFace(own, bld, positionAhead.y, positionAhead.x,
                       newFacing, 0, TRUE)
        ELSE own

\* variant: only the face of position itself is cleared
RemoveWall_OneSided(m, bld, position) ==
    StoreFace(m, bld, position.y, position.x, position.facing, 0, TRUE)

RemoveWall(m, bld, position) ==
    LET own           == StoreFace(m, bld, position.y, position.x,
                                   position.facing, 0, TRUE)
        positionAhead == GetPositionAheadOfThis(position, 1)
        newFacing     == (position.facing + 2) % 4
    IN  IF InBounds(positionAhead, 0, 0, m.width, m.height, TRUE)
        THEN StoreFace(own, bld, positionAhead.y, positionAhead.x,
                       newFacing, 0, TRUE)
        ELSE own

\* one authoring call of MakeFirstMockup
MakeCall(x, y, facing, wallID) ==
    [make |-> TRUE, position |-> Position(x, y, facing), wallID |-> wallID]

RemoveCall(x, y, facing) ==
    [make |-> FALSE, position |-> Position(x, y, facing), wallID |-> 0]

\* the calls MakeFirstMockup issues, in program order
MockupCalls(width, height) ==
    LET borderRows ==
            [i \in 1 .. 2 * height |->
                LET row == (i - 1) \div 2
                IN  IF i % 2 = 1
                    THEN MakeCall(0, row, WALL_FACING_EAST, WALL_TYPE_STONE)
                    ELSE MakeCall(width - 1, row, WALL_FACING_WEST,
                                  WALL_TYPE_STONE)]
        borderColumns ==
            [i \in 1 .. 2 * width |->
                LET column == (i - 1) \div 2
                IN  IF i % 2 = 1
                    THEN MakeCall(column, 0, WALL_FACING_SOUTH,
                                  WALL_TYPE_STONE)
                    ELSE MakeCall(column, height - 1, WALL_FACING_NORTH,
                                  WALL_TYPE_STONE)]
        corridorColumns ==
            [i \in 1 .. 2 * (width - 4) |->
                LET column == 2 + (i - 1) \div 2
                IN  IF i % 2 = 1
                    THEN MakeCall(column, 1, WALL_FACING_SOUTH,
                                  WALL_TYPE_STONE)
                    ELSE MakeCall(column, height - 2, WALL_FACING_SOUTH,
                                  WALL_TYPE_STONE)]
        corridorRows ==
            [i \in 1 .. 2 * (height - 3) |->
                LET row == 2 + (i - 1) \div 2
                IN  IF i % 2 = 1
                    THEN MakeCall(1, row, WALL_FACING_EAST, WALL_TYPE_STONE)
                    ELSE MakeCall(width - 2, row, WALL_FACING_WEST,
                                  WALL_TYPE_STONE)]
    IN  borderRows \o borderColumns \o corridorColumns \o corridorRows
        \o <<RemoveCall(2, height \div 2, WALL_FACING_WEST)>>

\* the calls are executed one after the other, each on the map the previous
\* one left
RECURSIVE ApplyCalls(_, _, _, _)
ApplyCalls(m, bld, calls, index) ==
    IF index > Len(calls) THEN m
    ELSE LET c    == calls[index]
             next == IF c.make
                     THEN MakeNormalWall(m, bld, c.position, c.wallID)
                     ELSE RemoveWall(m, bld, c.position)
         IN  IF next.fault
             THEN next
             ELSE ApplyCalls(next, bld, calls, index + 1)

MakeFirstMockup(m, bld) ==
    LET sized   == [m EXCEPT !.width = MockupSize, !.height = MockupSize]
        cleared == ClearMap(sized)
        started == [cleared EXCEPT !.startingPoints =
                        <<Position(1, 1, PLAYER_FACING_EAST)>>]
    IN  ApplyCalls(started, bld, MockupCalls(started.width, started.height), 1)

MakeMockup(m, bld) == MakeFirstMockup(m, bld)

\* the map `new Map()` followed by MakeMockup() yields, per outcome of the
\* stores outside the tables
NewMockup == [bld \in Builds |-> MakeMockup(NewMap, bld)]

----------------------------------------------------------------------------
(* WallSpriteSet and ArtManager *)

\* WallSpriteSet::visibleDepth_ : the length of the three image arrays
VisibleDepth == 3

\* the f, l and r image files of a sprite set
Families == {"front", "left", "right"}

\* the image files LoadArt() asks for: <<set number, family, index>>
ArtFiles == (1 .. 4) \X Families \X (0 .. VisibleDepth - 1)

\* the null pointer, and the surface loaded from one file
NullImage == 0

ImageOf(file) ==
    file[1] * 100 + file[3] * 10
        + (CASE file[2] = "front" -> 1 [] file[2] = "left" -> 2
             [] file[2] = "right" -> 3)

\* Engine::LoadImageResource: 0 when the file cannot be loaded
LoadImageResource(file, missing) ==
    IF file \in missing THEN NullImage ELSE ImageOf(file)

\* the files that fail to load in one run: none, all, or the files of one
\* family in every set
MissingFileSets ==
    {{}, ArtFiles}
        \cup {{file \in ArtFiles : file[2] = family} : family \in Families}

WallSpriteSet(setNumber, missing) ==
    [visibleDepth |-> VisibleDepth,
     frontImages  |-> [index \in 0 .. VisibleDepth - 1 |->
                          LoadImageResource(<<setNumber, "front", index>>,
                                            missing)],
     leftImages   |-> [index \in 0 .. VisibleDepth - 1 |->
                          LoadImageResource(<<setNumber, "left", index>>,
                                            missing)],
     rightImages  |-> [index \in 0 .. VisibleDepth - 1 |->
                          LoadImageResource(<<setNumber, "right", index>>,
                                            missing)]]

\* first_wall, stone_wall, wood_wall, metal_wall
LoadArt(missing) ==
    <<WallSpriteSet(1, missing), WallSpriteSet(2, missing),
      WallSpriteSet(3, missing), WallSpriteSet(4, missing)>>

\* the null sprite set
NullSet == [visibleDepth |-> 0, frontImages |-> <<>>, leftImages |-> <<>>,
            rightImages |-> <<>>]

\* variant: the sets are numbered from 0
GetWallSetNumber_ZeroBased(sprites, which) ==
    LET unsigned == IF which < 0 THEN 2147483647 ELSE which
    IN  IF unsigned >= 0 /\ unsigned < Len(sprites)
        THEN sprites[unsigned + 1]
        ELSE NullSet

\* which is unsigned int: a negative int argument arrives as 2^32 + which,
\* a value of at least 2^31, kept here as the largest of them that the
\* checker's integers hold
GetWallSetNumber(sprites, which) ==
    LET unsigned == IF which < 0 THEN 2147483647 ELSE which
    IN  IF unsigned > 0 /\ unsigned <= Len(sprites)
        THEN sprites[(unsigned - 1) + 1]
        ELSE NullSet

\* the getters evaluate images_[range] unless range > visibleDepth_
ReadsImageSlot(set, range) == ~(range > set.visibleDepth)

GetFrontImage(set, range) ==
    IF range > set.visibleDepth THEN NullImage ELSE set.frontImages[range]

GetLeftImage(set, range) ==
    IF range > set.visibleDepth THEN NullImage ELSE set.leftImages[range]

GetRightImage(set, range) ==
    IF range > set.visibleDepth THEN NullImage ELSE set.rightImages[range]

----------------------------------------------------------------------------
(* GameState *)

\* last: op names the operation, ret is a move's return value, replaced says
\* that StartNewGame deleted an existing map, position / wallID are the
\* arguments of a wall edit or of a wall query; which, family, range are
\* the arguments of a query of the starting points or of a sprite set; read
\* and slot say whether the query evaluated an array element, and which;
\* value, result are what a query returned; frame is the list of drawing
\* calls of RenderMap and cells the cell colours of the mini-map
NoOp == [op |-> "construct", ret |-> FALSE, replaced |-> FALSE,
         position |-> Position(0, 0, 0), wallID |-> 0,
         which |-> 0, family |-> "front", range |-> 0,
         read |-> FALSE, slot |-> 0,
         value |-> 0, result |-> Position(0, 0, 0),
         frame |-> <<>>, cells |-> <<>>]

Did(op, ret) == [NoOp EXCEPT !.op = op, !.ret = ret]

\* the process has died: a null or stray access that the build traps
Crashed == currentMap.fault

\* the outcomes the next store outside the tables can have in this run
BuildChoices == IF build = "undetermined" THEN Builds ELSE {build}

\* the build after an operation that took the map from before to after
\* under outcome bld: known once a store outside the tables has happened
Determined(bld, before, after) ==
    IF after.fault \/ after.stray # before.stray THEN bld ELSE build

\* currentMap_->... with currentMap_ == 0 reads through the null pointer
NullDereference ==
    /\ currentMap' = [currentMap EXCEPT !.fault = TRUE]
    /\ UNCHANGED playerPosition

StartNewGame ==
    /\ ~Crashed
    /\ \E bld \in BuildChoices :
          \E made \in {NewMockup[bld]} :
              /\ currentMap' =
                     [made EXCEPT !.stray = @ \cup currentMap.stray]
              /\ playerPosition' =
                     IF made.fault THEN playerPosition
                     ELSE GetStartingPoint(made, 0)
              /\ build' = Determined(bld, NewMap, made)
    /\ last' = [Did("StartNewGame", FALSE) EXCEPT
                    !.replaced = ~currentMap.null]
    /\ UNCHANGED <<edits, allWallSprites, loop>>

\* variant: the passability test is missing
MovePlayerForward_Ungated ==
    /\ ~Crashed
    /\ IF currentMap.null
       THEN NullDereference /\ last' = Did("MovePlayerForward", FALSE)
       ELSE /\ playerPosition' = GetPositionAheadOfThis(playerPosition, 1)
            /\ last' = Did("MovePlayerForward", TRUE)
            /\ UNCHANGED currentMap
    /\ UNCHANGED <<build, edits, allWallSprites, loop>>

MovePlayerForward ==
    /\ ~Crashed
    /\ IF currentMap.null
       THEN NullDereference /\ last' = Did("MovePlayerForward", FALSE)
       ELSE IF CanPassWallForCoordinate(currentMap, playerPosition)
       THEN /\ playerPosition' = GetPositionAheadOfThis(playerPosition, 1)
            /\ last' = Did("MovePlayerForward", TRUE)
            /\ UNCHANGED currentMap
       ELSE /\ last' = Did("MovePlayerForward", FALSE)
            /\ UNCHANGED <<currentMap, playerPosition>>
    /\ UNCHANGED <<build, edits, allWallSprites, loop>>

\* variant: the face ahead is tested, not the face behind
MovePlayerBack_TestsFront ==
    /\ ~Crashed
    /\ LET tempPosition == playerPosition
       IN  IF currentMap.null
           THEN NullDereference /\ last' = Did("MovePlayerBack", FALSE)
           ELSE IF CanPassWallForCoordinate(currentMap, tempPosition)
           THEN /\ playerPosition' = GetPositionBehindThis(playerPosition, 1)
                /\ last' = Did("MovePlayerBack", TRUE)
                /\ UNCHANGED currentMap
           ELSE /\ last' = Did("MovePlayerBack", FALSE)
                /\ UNCHANGED <<currentMap, playerPosition>>
    /\ UNCHANGED <<build, edits, allWallSprites, loop>>

MovePlayerBack ==
    /\ ~Crashed
    /\ LET tempPosition ==
               GetLeftFacingOfThis(GetLeftFacingOfThis(playerPosition))
       IN  IF currentMap.null
           THEN NullDereference /\ last' = Did("MovePlayerBack", FALSE)
           ELSE IF CanPassWallForCoordinate(currentMap, tempPosition)
           THEN /\ playerPosition' = GetPositionBehindThis(playerPosition, 1)
                /\ last' = Did("MovePlayerBack", TRUE)
                /\ UNCHANGED currentMap
           ELSE /\ last' = Did("MovePlayerBack", FALSE)
                /\ UNCHANGED <<currentMap, playerPosition>>
    /\ UNCHANGED <<build, edits, allWallSprites, loop>>

\* variant: the face to the right is tested, not the face to the left
MovePlayerLeft_TestsRight ==
    /\ ~Crashed
    /\ LET tempPosition == GetRightFacingOfThis(playerPosition)
       IN  IF currentMap.null
           THEN NullDereference /\ last' = Did("MovePlayerLeft", FALSE)
           ELSE IF CanPassWallForCoordinate(currentMap, tempPosition)
           THEN /\ playerPosition' = GetPositionLeftOfThis(playerPosition, 1)
                /\ last' = Did("MovePlayerLeft", TRUE)
                /\ UNCHANGED currentMap
           ELSE /\ last' = Did("MovePlayerLeft", FALSE)
                /\ UNCHANGED <<currentMap, playerPosition>>
    /\ UNCHANGED <<build, edits, allWallSprites, loop>>

MovePlayerLeft ==
    /\ ~Crashed
    /\ LET tempPosition == GetLeftFacingOfThis(playerPosition)
       IN  IF currentMap.null
           THEN NullDereference /\ last' = Did("MovePlayerLeft", FALSE)
           ELSE IF CanPassWallForCoordinate(currentMap, tempPosition)
           THEN /\ playerPosition' = GetPositionLeftOfThis(playerPosition, 1)
                /\ last' = Did("MovePlayerLeft", TRUE)
                /\ UNCHANGED currentMap
           ELSE /\ last' = Did("MovePlayerLeft", FALSE)
                /\ UNCHANGED <<currentMap, playerPosition>>
    /\ UNCHANGED <<build, edits, allWallSprites, loop>>

MovePlayerRight ==
    /\ ~Crashed
    /\ LET tempPosition == GetRightFacingOfThis(playerPosition)
       IN  IF currentMap.null
           THEN NullDereference /\ last' = Did("MovePlayerRight", FALSE)
           ELSE IF CanPassWallForCoordinate(currentMap, tempPosition)
           THEN /\ playerPosition' = GetPositionRightOfThis(playerPosition, 1)
                /\ last' = Did("MovePlayerRight", TRUE)
                /\ UNCHANGED currentMap
           ELSE /\ last' = Did("MovePlayerRight", FALSE)
                /\ UNCHANGED <<currentMap, playerPosition>>
    /\ UNCHANGED <<build, edits, allWallSprites, loop>>

\* variant: the turn is refused when the new face is not passable
TurnPlayerLeft_Gated ==
    /\ ~Crashed
    /\ playerPosition' =
           IF ~currentMap.null
              /\ ~CanPassWallForCoordinate(currentMap,
                      GetLeftFacingOfThis(playerPosition))
           THEN playerPosition
           ELSE GetLeftFacingOfThis(playerPosition)
    /\ last' = Did("TurnPlayerLeft", FALSE)
    /\ UNCHANGED <<build, currentMap, edits, allWallSprites, loop>>

TurnPlayerLeft ==
    /\ ~Crashed
    /\ playerPosition' = GetLeftFacingOfThis(playerPosition)
    /\ last' = Did("TurnPlayerLeft", FALSE)
    /\ UNCHANGED <<build, currentMap, edits, allWallSprites, loop>>

TurnPlayerRight ==
    /\ ~Crashed
    /\ playerPosition' = GetRightFacingOfThis(playerPosition)
    /\ last' = Did("TurnPlayerRight", FALSE)
    /\ UNCHANGED <<build, currentMap, edits, allWallSprites, loop>>

\* GameState::GameState()
\* GetStartingPoint is called with which in -MaxWhich .. MaxWhich
MaxWhich == 1

\* what a read outside an array yields when the build does not trap it:
\* whatever the memory there holds, zero or not
Garbage == {0, 1}

\* a query that read outside its array (stray) under outcome bld, and
\* answered as the record answer says
Queried(stray, bld, answer) ==
    /\ currentMap' = IF stray /\ bld = "trap"
                     THEN [currentMap EXCEPT !.fault = TRUE]
                     ELSE currentMap
    /\ build' = IF stray THEN bld ELSE build
    /\ last' = answer
    /\ UNCHANGED <<playerPosition, edits, allWallSprites, loop>>

\* the outcomes of a read: one, the answer, unless the read is stray
ReadChoices(stray) == IF stray THEN BuildChoices ELSE {build}

WildChoices(stray) == IF stray THEN Garbage ELSE {0}

\* GetStartingPoint evaluates startingPoints_[which] under this test
ReadsStartingPoint(m, which) == m.startingPoints # <<>> /\ which < 1

\* GetStartingPoint(which) on the current map
CallGetStartingPoint ==
    /\ ~Crashed
    /\ ~currentMap.null
    /\ \E which \in -MaxWhich .. MaxWhich :
          LET reads == ReadsStartingPoint(currentMap, which)
              stray == reads /\ which \notin 0 .. Len(currentMap.startingPoints) - 1
          IN  \E bld \in ReadChoices(stray), wild \in WildChoices(stray) :
                  Queried(stray, bld,
                      [Did("GetStartingPoint", FALSE) EXCEPT
                          !.which = which,
                          !.read = reads,
                          !.slot = IF reads THEN which ELSE 0,
                          !.result =
                              IF stray THEN Position(wild, wild, wild)
                              ELSE GetStartingPoint(currentMap, which)])

Init ==
    /\ build = "undetermined"
    /\ currentMap = NullMap
    /\ playerPosition = Position(0, 0, 0)
    /\ last = NoOp
    /\ edits = 0
    /\ allWallSprites = LoadArt({})
    /\ loop = ExecuteLocals

Next ==
    \/ StartNewGame
    \/ MovePlayerForward
    \/ MovePlayerBack
    \/ MovePlayerLeft
    \/ MovePlayerRight
    \/ TurnPlayerLeft
    \/ TurnPlayerRight
    \/ CallGetStartingPoint

Spec == Init /\ [][Next]_vars
----------------------------------------------------------------------------
(* SpecMap and SpecWalk: a freshly reset Map of small dimensions, edited   *)
(* face by face; in SpecWalk a player moves and turns on it.               *)

GridCells(m) == (0 .. m.width - 1) \X (0 .. m.height - 1)

\* the <<width, height>> of the maps of SpecMap and SpecWalk
MapSizes ==
    {size \in (1 .. MaxExtent) \X (1 .. MaxExtent) :
        size[1] + size[2] <= MaxExtent}

\* a Map of the given dimensions right after ClearMap()
ResetMap(width, height) ==
    ClearMap([NewMap EXCEPT !.width = width, !.height = height])

EditMakeNormalWall(limit, wallIDs) ==
    /\ ~Crashed
    /\ edits < limit
    /\ \E cell \in GridCells(currentMap), facing \in WallFacings,
          wallID \in wallIDs, bld \in BuildChoices :
          LET position == Position(cell[1], cell[2], facing)
              made     == MakeNormalWall(currentMap, bld, position, wallID)
          IN  /\ currentMap' = made
              /\ build' = Determined(bld, currentMap, made)
              /\ last' = [Did("MakeNormalWall", FALSE) EXCEPT
                              !.position = position, !.wallID = wallID]
    /\ edits' = edits + 1
    /\ UNCHANGED <<playerPosition, allWallSprites, loop>>

EditRemoveWall(limit) ==
    /\ ~Crashed
    /\ edits < limit
    /\ \E cell \in GridCells(currentMap), facing \in WallFacings,
          bld \in BuildChoices :
          LET position == Position(cell[1], cell[2], facing)
              made     == RemoveWall(currentMap, bld, position)
          IN  /\ currentMap' = made
              /\ build' = Determined(bld, currentMap, made)
              /\ last' = [Did("RemoveWall", FALSE) EXCEPT
                              !.position = position]
    /\ edits' = edits + 1
    /\ UNCHANGED <<playerPosition, allWallSprites, loop>>

CallMakeNormalWall == EditMakeNormalWall(MaxEdits, 1 .. MaxWallID)

\* ClearMap() on the map as the edits left it
CallClearMap ==
    /\ ~Crashed
    /\ currentMap' = ClearMap(currentMap)
    /\ last' = Did("ClearMap", FALSE)
    /\ UNCHANGED <<build, playerPosition, edits, allWallSprites, loop>>

CallRemoveWall == EditRemoveWall(MaxEdits)

InitMap ==
    /\ build = "undetermined"
    /\ \E size \in MapSizes : currentMap = ResetMap(size[1], size[2])
    /\ playerPosition = Position(0, 0, 0)
    /\ last = NoOp
    /\ edits = 0
    /\ allWallSprites = LoadArt({})
    /\ loop = ExecuteLocals

NextMap ==
    \/ CallMakeNormalWall
    \/ CallRemoveWall
    \/ CallClearMap

SpecMap == InitMap /\ [][NextMap]_vars

\* the walls a player walks between are authored as MakeFirstMockup authors
\* them: all of WALL_TYPE_STONE
AuthorNormalWall == EditMakeNormalWall(MaxWalkEdits, {WALL_TYPE_STONE})

AuthorRemoveWall == EditRemoveWall(MaxWalkEdits)

InitWalk ==
    /\ build = "undetermined"
    /\ \E size \in MapSizes :
          /\ currentMap = ResetMap(size[1], size[2])
          /\ \E cell \in (0 .. size[1] - 1) \X (0 .. size[2] - 1),
                facing \in FaceSlots :
                playerPosition = Position(cell[1], cell[2], facing)
    /\ last = NoOp
    /\ edits = 0
    /\ allWallSprites = LoadArt({})
    /\ loop = ExecuteLocals

NextWalk ==
    \/ AuthorNormalWall
    \/ AuthorRemoveWall
    \/ MovePlayerForward
    \/ MovePlayerBack
    \/ MovePlayerLeft
    \/ MovePlayerRight
    \/ TurnPlayerLeft
    \/ TurnPlayerRight

SpecWalk == InitWalk /\ [][NextWalk]_vars

----------------------------------------------------------------------------
(* Properties *)

\* the unit step of a facing: North y-1, East x+1, South y+1, West x-1
StepX(f) == CASE f = 1 -> 1 [] f = 3 -> -1 [] OTHER -> 0
StepY(f) == CASE f = 0 -> -1 [] f = 2 -> 1 [] OTHER -> 0

Started == ~currentMap.null /\ ~Crashed

\* the player stays where it is, facing included
PlayerStays == playerPosition' = playerPosition

\* the player moves one cell in direction d and keeps its facing
PlayerSteps(d) ==
    playerPosition' = Position(playerPosition.x + StepX(d),
                               playerPosition.y + StepY(d),
                               playerPosition.facing)

\* a move that tests face d of the player's cell: it succeeds iff the face
\* is passable, then steps in direction d; else nothing changes
GatedMove(op, d) ==
    last'.op = op =>
        IF CanPassWallForCoordinate(currentMap,
               Position(playerPosition.x, playerPosition.y, d))
        THEN last'.ret = TRUE /\ PlayerSteps(d)
        ELSE last'.ret = FALSE /\ PlayerStays

\* C1: MovePlayerForward returns false and leaves x, y and facing unchanged
\* when the face in the player's facing is not passable at the call;
\* otherwise it returns true and moves the player one cell along the facing,
\* the facing unchanged.
C1_MoveForwardGating ==
    [][GatedMove("MovePlayerForward", playerPosition.facing)]_vars

C1_Witness ==
    /\ last.op = "MovePlayerForward"
    /\ last.ret
    /\ edits > 0

\* C2: after StartNewGame, whatever moves and turns follow, the player's
\* cell lies inside the map.
C2_PlayerInsideMap ==
    Started => InGrid(currentMap, playerPosition.x, playerPosition.y)

C2_Witness ==
    /\ Started
    /\ last.op = "MovePlayerForward"
    /\ ~last.ret
    /\ playerPosition = Position(8, 9, PLAYER_FACING_SOUTH)

\* C3 as stated: after StartNewGame, whatever moves and turns follow, the
\* face of the player's cell in the player's facing is passable.
C3_FacingAlwaysPassable ==
    Started => CanPassWallForCoordinate(currentMap, playerPosition)

\* C3 amended: after StartNewGame, the player changes cell only across a
\* passable face of the cell it leaves, into the cell behind that face (a
\* turn may leave the player facing an impassable face).
C3_CrossesOnlyPassableFaces ==
    [][(/\ ~currentMap.null
        /\ last'.op # "StartNewGame"
        /\ \/ playerPosition'.x # playerPosition.x
           \/ playerPosition'.y # playerPosition.y)
       => \E d \in FaceSlots :
             /\ CanPassWallForCoordinate(currentMap,
                    Position(playerPosition.x, playerPosition.y, d))
             /\ playerPosition'.x = playerPosition.x + StepX(d)
             /\ playerPosition'.y = playerPosition.y + StepY(d)]_vars

C3_Witness ==
    /\ Started
    /\ last.op = "MovePlayerLeft"
    /\ last.ret
    /\ ~CanPassWallForCoordinate(currentMap, playerPosition)

\* C4: right after StartNewGame the player is at GetStartingPoint(0), which
\* is (1, 1, East); a StartNewGame on top of an earlier game yields the same
\* map contents and the same player position again.
C4_StartNewGameRoundTrip ==
    /\ [](last.op = "StartNewGame" /\ ~Crashed =>
            /\ playerPosition = GetStartingPoint(currentMap, 0)
            /\ playerPosition = Position(1, 1, PLAYER_FACING_EAST))
    /\ [][(last'.op = "StartNewGame" /\ Started /\ ~currentMap'.fault) =>
            /\ currentMap'.width = currentMap.width
            /\ currentMap'.height = currentMap.height
            /\ currentMap'.walls = currentMap.walls
            /\ currentMap'.passibility = currentMap.passibility
            /\ currentMap'.startingPoints = currentMap.startingPoints
            /\ playerPosition' = Position(1, 1, PLAYER_FACING_EAST)]_vars

C4_Witness ==
    /\ last.op = "StartNewGame"
    /\ last.replaced
    /\ Started

\* the mockup scenario: the player stands at the start (1, 1), has just
\* turned right from East to South, and now moves forward
AfterTurnRightAtStart ==
    /\ Started
    /\ last.op = "TurnPlayerRight"
    /\ playerPosition = Position(1, 1, PLAYER_FACING_SOUTH)
    /\ last'.op = "MovePlayerForward"

\* C5 as stated: at the start of the mockup, TurnPlayerRight then
\* MovePlayerForward is blocked: it returns false and the player remains at
\* (1, 1) facing South.
C5_TurnRightThenForwardBlocked ==
    [][AfterTurnRightAtStart =>
          /\ last'.ret = FALSE
          /\ playerPosition' = Position(1, 1, PLAYER_FACING_SOUTH)]_vars

\* C5 amended: at the start of the mockup, TurnPlayerRight then
\* MovePlayerForward enters the west corridor: it returns true and the
\* player is at (1, 2) facing South.
C5_TurnRightThenForwardMoves ==
    [][AfterTurnRightAtStart =>
          /\ last'.ret = TRUE
          /\ playerPosition' = Position(1, 2, PLAYER_FACING_SOUTH)]_vars

C5_Witness ==
    /\ Started
    /\ last.op = "MovePlayerForward"
    /\ last.ret
    /\ playerPosition = Position(1, 2, PLAYER_FACING_SOUTH)
    /\ GetWallForCoordinate(currentMap,
           Position(1, 1, PLAYER_FACING_SOUTH)) = 0

\* C6: MovePlayerBack succeeds iff face (f+2) mod 4 of the player's cell is
\* passable, MovePlayerLeft iff face (f+3) mod 4, MovePlayerRight iff face
\* (f+1) mod 4; on success the player moves one cell in the tested direction
\* and keeps facing f, on failure the operation returns false and x, y and
\* facing are unchanged.
C6_BackAndStrafeGating ==
    [][/\ GatedMove("MovePlayerBack", (playerPosition.facing + 2) % 4)
       /\ GatedMove("MovePlayerLeft", (playerPosition.facing + 3) % 4)
       /\ GatedMove("MovePlayerRight", (playerPosition.facing + 1) % 4)]_vars

C6_Witness ==
    /\ last.op = "MovePlayerRight"
    /\ last.ret
    /\ edits > 0
    /\ playerPosition.facing = PLAYER_FACING_WEST

\* a turn to facing f: x, y and the whole map are unchanged
TurnedTo(op, f) ==
    last'.op = op =>
        /\ playerPosition' =
               Position(playerPosition.x, playerPosition.y, f)
        /\ currentMap' = currentMap

\* C7: TurnPlayerLeft and TurnPlayerRight always take effect, whatever
\* walls surround the player: the facing becomes (f+3) mod 4 respectively
\* (f+1) mod 4, x and y are unchanged, and the wall and passability tables
\* are unchanged.
C7_TurnsUnconditional ==
    /\ [](~Crashed => ENABLED TurnPlayerLeft /\ ENABLED TurnPlayerRight)
    /\ [][/\ TurnedTo("TurnPlayerLeft", (playerPosition.facing + 3) % 4)
          /\ TurnedTo("TurnPlayerRight", (playerPosition.facing + 1) % 4)]_vars

\* the player has turned to a face that is walled and impassable
C7_Witness ==
    /\ last.op = "TurnPlayerLeft"
    /\ InGrid(currentMap, playerPosition.x, playerPosition.y)
    /\ ~CanPassWallForCoordinate(currentMap, playerPosition)
    /\ GetWallForCoordinate(currentMap, playerPosition) > 0

\* the cell one step ahead of a wall position, and the face of that cell
\* that looks back at it
NeighbourX(p) == p.x + StepX(p.facing)
NeighbourY(p) == p.y + StepY(p.facing)
OppositeFace(p) == (p.facing + 2) % 4

\* a face of an allocated slot whose neighbour cell is inside the grid
InteriorFace(m, p) ==
    /\ p.facing \in FaceSlots
    /\ InGrid(m, p.x, p.y)
    /\ InGrid(m, NeighbourX(p), NeighbourY(p))

\* both sides of the wall at p carry wallID and passability pass
BothSides(m, p, wallID, pass) ==
    LET q == Position(NeighbourX(p), NeighbourY(p), OppositeFace(p))
    IN  /\ GetWallForCoordinate(m, p) = wallID
        /\ CanPassWallForCoordinate(m, p) = pass
        /\ GetWallForCoordinate(m, q) = wallID
        /\ CanPassWallForCoordinate(m, q) = pass

\* every slot but the two sides of the wall at p is the same in m and n
OtherFacesSame(m, n, p) ==
    \A s \in Slots(m.width, m.height) :
        \/ s = <<p.y, p.x, p.facing>>
        \/ s = <<NeighbourY(p), NeighbourX(p), OppositeFace(p)>>
        \/ /\ n.walls[s] = m.walls[s]
           /\ n.passibility[s] = m.passibility[s]

\* C8: for an in-bounds cell p and a face f whose neighbour cell is in
\* bounds, after MakeNormalWall(p, id) GetWallForCoordinate returns id and
\* CanPassWallForCoordinate returns false for (p, f) and for
\* (neighbour, (f+2) mod 4), and no other face of the map changes.
C8_BilateralWall ==
    [][(last'.op = "MakeNormalWall"
        /\ InteriorFace(currentMap, last'.position))
       => /\ BothSides(currentMap', last'.position, last'.wallID, FALSE)
          /\ OtherFacesSame(currentMap, currentMap', last'.position)
          /\ DOMAIN currentMap'.walls = DOMAIN currentMap.walls
          /\ DOMAIN currentMap'.passibility = DOMAIN currentMap.passibility
       ]_vars

C8_Witness ==
    /\ last.op = "MakeNormalWall"
    /\ InteriorFace(currentMap, last.position)
    /\ last.wallID = MaxWallID
    /\ edits = MaxEdits

\* C9 as stated: MakeNormalWall and RemoveWall (with a face 0..3) write the
\* neighbour's opposite face only when the neighbour lies inside the grid;
\* for an edge cell facing outward only p's own face is written and no
\* entry outside the allocated tables is touched.
C9_NeighbourWrittenOnlyInGrid ==
    [][(last'.op \in {"MakeNormalWall", "RemoveWall"}
        /\ last'.position.facing \in FaceSlots)
       => /\ ~currentMap'.fault
          /\ currentMap'.stray = currentMap.stray]_vars

\* C10: after RemoveWall(p) the wall id is 0 and passability is true on p's
\* face and, when the neighbour cell ahead is in bounds, on the neighbour's
\* opposite face; right after MakeNormalWall(p, id) on an interior face of
\* a freshly reset map it returns the map to exactly the reset state.
C10_RemoveWallMirrors ==
    [][(last'.op = "RemoveWall" /\ last'.position.facing \in FaceSlots
        /\ ~currentMap'.fault)
       => /\ GetWallForCoordinate(currentMap', last'.position) = 0
          /\ CanPassWallForCoordinate(currentMap', last'.position)
          /\ InteriorFace(currentMap, last'.position) =>
                BothSides(currentMap', last'.position, 0, TRUE)
          /\ (/\ edits = 1
              /\ last.op = "MakeNormalWall"
              /\ last.position = last'.position
              /\ InteriorFace(currentMap, last'.position))
             => /\ currentMap'.walls =
                       ResetMap(currentMap.width, currentMap.height).walls
                /\ currentMap'.passibility =
                       ResetMap(currentMap.width,
                                currentMap.height).passibility
       ]_vars

C10_Witness ==
    /\ last.op = "RemoveWall"
    /\ edits = 2
    /\ InteriorFace(currentMap, last.position)
    /\ currentMap.walls =
           ResetMap(currentMap.width, currentMap.height).walls
    /\ currentMap.passibility =
           ResetMap(currentMap.width, currentMap.height).passibility

----------------------------------------------------------------------------
(* C11 -- Immediately after ClearMap() on a W x H map (W, H >= 1), every   *)
(* wall id is 0, and CanPassWallForCoordinate is false for exactly the     *)
(* outward border faces (West of column 0, North of row 0, East of column  *)
(* W-1, South of row H-1) and true for every other face of every cell.     *)

\* the face of cell (x, y) looks out of a width x height grid
OutwardFace(width, height, x, y, facing) ==
    \/ facing = WALL_FACING_WEST /\ x = 0
    \/ facing = PLAYER_FACING_NORTH /\ y = 0
    \/ facing = WALL_FACING_EAST /\ x = width - 1
    \/ facing = WALL_FACING_SOUTH /\ y = height - 1

JustCleared == ~Crashed /\ (edits = 0 \/ last.op = "ClearMap")

C11_ClearMapBorder ==
    JustCleared =>
        /\ currentMap.width >= 1 /\ currentMap.height >= 1
        /\ \A cell \in GridCells(currentMap), facing \in FaceSlots :
              LET position == Position(cell[1], cell[2], facing)
              IN  /\ GetWallForCoordinate(currentMap, position) = 0
                  /\ CanPassWallForCoordinate(currentMap, position)
                       <=> ~OutwardFace(currentMap.width, currentMap.height,
                                        cell[1], cell[2], facing)

\* ClearMap() has run on a map that two edits had changed, and the map has
\* an interior face
C11_Witness ==
    /\ last.op = "ClearMap"
    /\ edits = MaxEdits
    /\ ~Crashed
    /\ currentMap.width + currentMap.height > 2

----------------------------------------------------------------------------
(* C12 -- The four border edges of the grid are always impassable: in      *)
(* every map state reachable from ClearMap() by any sequence of            *)
(* MakeNormalWall and RemoveWall calls on in-bounds cells, every outward   *)
(* border face reports CanPassWallForCoordinate == false.                  *)

BorderImpassable(m) ==
    \A cell \in GridCells(m), facing \in FaceSlots :
        OutwardFace(m.width, m.height, cell[1], cell[2], facing)
            => ~CanPassWallForCoordinate(m,
                                         Position(cell[1], cell[2], facing))

\* C12 as stated
C12_BorderAlwaysImpassable == ~Crashed => BorderImpassable(currentMap)

\* C12 amended: the border is impassable after ClearMap(), and it stays so
\* under MakeNormalWall with any cell and facing and under RemoveWall of a
\* face 0..3 whose neighbour cell is inside the grid
C12_BorderKeptByInteriorRemovals ==
    /\ [](JustCleared => BorderImpassable(currentMap))
    /\ [][(/\ BorderImpassable(currentMap)
           /\ ~currentMap'.fault
           /\ \/ last'.op = "MakeNormalWall"
              \/ /\ last'.op = "RemoveWall"
                 /\ InteriorFace(currentMap, last'.position))
          => BorderImpassable(currentMap')]_vars

\* an interior wall has been made and removed again, the border is intact
C12_Witness ==
    /\ last.op = "RemoveWall"
    /\ InteriorFace(currentMap, last.position)
    /\ edits = MaxEdits
    /\ ~Crashed
    /\ BorderImpassable(currentMap)

----------------------------------------------------------------------------
(* SpecQuery: the query methods of Map and WallSpriteSet, called with      *)
(* every argument of a small range on small reset maps                     *)

\* the image getters are called with range in -MaxRange .. MaxRange
MaxRange == 4

\* the cells of the grid and the ring of cells around it
Around(m) == (-1 .. m.width) \X (-1 .. m.height)

\* the wall queries evaluate walls_[y][x][facing] / passibility_[y][x][facing]
\* when the cell passes the range test
ReadsWallSlot(m, position) == InGrid(m, position.x, position.y)

CallGetWallForCoordinate ==
    /\ ~Crashed
    /\ \E cell \in Around(currentMap), facing \in WallFacings :
          LET position == Position(cell[1], cell[2], facing)
              reads    == ReadsWallSlot(currentMap, position)
              stray    == reads /\ facing \notin FaceSlots
          IN  \E bld \in ReadChoices(stray), wild \in WildChoices(stray) :
                  Queried(stray, bld,
                      [Did("GetWallForCoordinate", FALSE) EXCEPT
                          !.position = position,
                          !.read = reads,
                          !.value =
                              IF stray THEN wild
                              ELSE GetWallForCoordinate(currentMap,
                                                        position)])

CallCanPassWallForCoordinate ==
    /\ ~Crashed
    /\ \E cell \in Around(currentMap), facing \in WallFacings :
          LET position == Position(cell[1], cell[2], facing)
              reads    == ReadsWallSlot(currentMap, position)
              stray    == reads /\ facing \notin FaceSlots
          IN  \E bld \in ReadChoices(stray), wild \in WildChoices(stray) :
                  Queried(stray, bld,
                      [Did("CanPassWallForCoordinate",
                           IF stray THEN wild # 0
                           ELSE CanPassWallForCoordinate(currentMap,
                                                         position))
                       EXCEPT !.position = position, !.read = reads])

\* Get<family>Image(range) of sprite set number which
GetImage(set, family, range) ==
    CASE family = "front" -> GetFrontImage(set, range)
      [] family = "left"  -> GetLeftImage(set, range)
      [] family = "right" -> GetRightImage(set, range)

CallGetImage ==
    /\ ~Crashed
    /\ \E which \in 1 .. Len(allWallSprites), family \in Families,
          range \in -MaxRange .. MaxRange :
          LET set   == allWallSprites[which]
              reads == ReadsImageSlot(set, range)
              stray == reads /\ range \notin 0 .. set.visibleDepth - 1
          IN  \E bld \in ReadChoices(stray), wild \in WildChoices(stray) :
                  Queried(stray, bld,
                      [Did("GetImage", FALSE) EXCEPT
                          !.which = which,
                          !.family = family,
                          !.range = range,
                          !.read = reads,
                          !.slot = IF reads THEN range ELSE 0,
                          !.value = IF stray THEN wild
                                    ELSE GetImage(set, family, range)])

InitQuery ==
    /\ build = "undetermined"
    /\ \E size \in MapSizes : currentMap = ResetMap(size[1], size[2])
    /\ playerPosition = Position(0, 0, 0)
    /\ last = NoOp
    /\ edits = 0
    /\ allWallSprites = LoadArt({})
    /\ loop = ExecuteLocals

NextQuery ==
    \/ CallGetWallForCoordinate
    \/ CallCanPassWallForCoordinate
    \/ CallGetStartingPoint
    \/ CallGetImage

SpecQuery == InitQuery /\ [][NextQuery]_vars

----------------------------------------------------------------------------
(* C13 -- For every Position whose x is outside [0,width) or whose y is    *)
(* outside [0,height), whatever its facing, GetWallForCoordinate returns 0 *)
(* and CanPassWallForCoordinate returns false, and neither reads nor       *)
(* changes any wall or passability entry.                                  *)

OutOfRange(m, p) == p.x < 0 \/ p.x >= m.width \/ p.y < 0 \/ p.y >= m.height

C13_OutOfRangeQueries ==
    [][(/\ last'.op \in {"GetWallForCoordinate", "CanPassWallForCoordinate"}
        /\ OutOfRange(currentMap, last'.position))
       => /\ last'.value = 0
          /\ ~last'.ret
          /\ ~last'.read
          /\ currentMap' = currentMap]_vars

\* a query just outside the south east corner of a map, on the slot
\* number the tables do not have
C13_Witness ==
    /\ last.op = "CanPassWallForCoordinate"
    /\ last.position = Position(currentMap.width, currentMap.height,
                                WALL_FACING_NORTH)
    /\ ~last.ret
    /\ ~last.read

----------------------------------------------------------------------------
(* C14 -- GetStartingPoint(which) returns the stored starting point only   *)
(* for which = 0 when one has been authored; for every other integer which *)
(* (positive or negative), and for any which on a map with no starting     *)
(* points, it returns a fresh origin position (0,0,North) and never reads  *)
(* a starting-point slot other than index 0.                               *)

C14_StartingPointOnlyForZero ==
    last.op = "GetStartingPoint" =>
        /\ ~Crashed
        /\ last.read => last.slot = 0
        /\ last.result =
               IF last.which = 0 /\ currentMap.startingPoints # <<>>
               THEN currentMap.startingPoints[1]
               ELSE Position(0, 0, PLAYER_FACING_NORTH)

----------------------------------------------------------------------------
(* MapView: the corridor renderer.  A frame is the sequence of the drawing *)
(* calls of one RenderMap, each with what it asked the map and what it     *)
(* drew.                                                                   *)

GetXOffsetCenter(range, offset) ==
    (CASE range = 0 -> 6 + offset * 63
       [] range = 1 -> 17 + offset * 41
       [] range = 2 -> 23 + offset * 29
       [] OTHER -> 0) * 4

GetXOffsetLeft(range, offset) ==
    (CASE range = 0 -> 0 [] range = 1 -> 6 [] range = 2 -> 17
       [] OTHER -> 0) * 4

GetXOffsetRight(range, offset) ==
    (CASE range = 0 -> 69 [] range = 1 -> 58 [] range = 2 -> 52
       [] OTHER -> 0) * 4

GetYOffsetCenter(range, offset) ==
    (CASE range = 0 -> 8 [] range = 1 -> 23 [] range = 2 -> 32
       [] OTHER -> 0) * 4

GetYOffsetLeft(range, offset) ==
    (CASE range = 0 -> 0 [] range = 1 -> 8 [] range = 2 -> 23
       [] OTHER -> 0) * 4

GetYOffsetRight(range, offset) ==
    (CASE range = 0 -> 0 [] range = 1 -> 8 [] range = 2 -> 23
       [] OTHER -> 0) * 4

\* one drawing call: fill says that it is one SDL_FillRect of the backdrop;
\* otherwise query is the face it asked the map for, wall the id it got,
\* and, when blit, image went to (destX, destY) by Engine::BlitSprite
NoDraw == [call |-> "none", fill |-> FALSE, range |-> 0, offset |-> 0,
           query |-> Position(0, 0, 0), wall |-> 0, blit |-> FALSE,
           image |-> NullImage, destX |-> 0, destY |-> 0]

DrawSky == [NoDraw EXCEPT !.call = "DrawSky", !.fill = TRUE]

DrawGround == [NoDraw EXCEPT !.call = "DrawGround", !.fill = TRUE]

DrawLeftWall(m, sprites, currentPosition, range, offset) ==
    LET query          == GetLeftFacingOfThis(currentPosition)
        nextWallNumber == GetWallForCoordinate(m, query)
        nextSet        == GetWallSetNumber(sprites, nextWallNumber)
        nextImage      == IF nextSet # NullSet
                          THEN GetLeftImage(nextSet, range)
                          ELSE NullImage
        blit           == nextSet # NullSet /\ nextImage # NullImage
    IN  [NoDraw EXCEPT
            !.call = "DrawLeftWall", !.range = range, !.offset = offset,
            !.query = query, !.wall = nextWallNumber, !.blit = blit,
            !.image = nextImage,
            !.destX = IF blit THEN GetXOffsetLeft(range, offset) ELSE 0,
            !.destY = IF blit THEN GetYOffsetLeft(range, offset) ELSE 0]

DrawRightWall(m, sprites, currentPosition, range, offset) ==
    LET query          == GetRightFacingOfThis(currentPosition)
        nextWallNumber == GetWallForCoordinate(m, query)
        nextSet        == GetWallSetNumber(sprites, nextWallNumber)
        nextImage      == IF nextSet # NullSet
                          THEN GetRightImage(nextSet, range)
                          ELSE NullImage
        blit           == nextSet # NullSet /\ nextImage # NullImage
    IN  [NoDraw EXCEPT
            !.call = "DrawRightWall", !.range = range, !.offset = offset,
            !.query = query, !.wall = nextWallNumber, !.blit = blit,
            !.image = nextImage,
            !.destX = IF blit THEN GetXOffsetRight(range, offset) ELSE 0,
            !.destY = IF blit THEN GetYOffsetRight(range, offset) ELSE 0]

\* variant: the image is blitted without the test for null
DrawStraightWall_NoImageTest(m, sprites, currentPosition, range, offset) ==
    LET query          == currentPosition
        nextWallNumber == GetWallForCoordinate(m, query)
        nextSet        == GetWallSetNumber(sprites, nextWallNumber)
        nextImage      == IF nextSet # NullSet
                          THEN GetFrontImage(nextSet, range)
                          ELSE NullImage
        blit           == nextSet # NullSet
    IN  [NoDraw EXCEPT
            !.call = "DrawStraightWall", !.range = range, !.offset = offset,
            !.query = query, !.wall = nextWallNumber, !.blit = blit,
            !.image = nextImage,
            !.destX = IF blit THEN GetXOffsetCenter(range, offset) ELSE 0,
            !.destY = IF blit THEN GetYOffsetCenter(range, offset) ELSE 0]

DrawStraightWall(m, sprites, currentPosition, range, offset) ==
    LET query          == currentPosition
        nextWallNumber == GetWallForCoordinate(m, query)
        nextSet        == GetWallSetNumber(sprites, nextWallNumber)
        nextImage      == IF nextSet # NullSet
                          THEN GetFrontImage(nextSet, range)
                          ELSE NullImage
        blit           == nextSet # NullSet /\ nextImage # NullImage
    IN  [NoDraw EXCEPT
            !.call = "DrawStraightWall", !.range = range, !.offset = offset,
            !.query = query, !.wall = nextWallNumber, !.blit = blit,
            !.image = nextImage,
            !.destX = IF blit THEN GetXOffsetCenter(range, offset) ELSE 0,
            !.destY = IF blit THEN GetYOffsetCenter(range, offset) ELSE 0]

\* variant: the lateral cells are taken on the opposite sides
DrawDistRank_Mirrored(m, sprites, currentPosition, range, offset) ==
    LET basePoint == GetPositionAheadOfThis(currentPosition, range)
        \* for (index = -1 * offset; index < 0; index++)
        toTheLeft ==
            [step \in 1 .. offset |->
                LET index == -1 * offset + (step - 1)
                IN  DrawStraightWall(m, sprites,
                        GetPositionRightOfThis(basePoint, -1 * index),
                        range, index)]
        \* for (index = offset; index > 0; index--)
        toTheRight ==
            [step \in 1 .. offset |->
                LET index == offset - (step - 1)
                IN  DrawStraightWall(m, sprites,
                        GetPositionLeftOfThis(basePoint, index),
                        range, index)]
    IN  toTheLeft \o toTheRight
            \o <<DrawLeftWall(m, sprites, basePoint, range, 0),
                 DrawRightWall(m, sprites, basePoint, range, 0),
                 DrawStraightWall(m, sprites, basePoint, range, 0)>>

DrawDistRank(m, sprites, currentPosition, range, offset) ==
    LET basePoint == GetPositionAheadOfThis(currentPosition, range)
        \* for (index = -1 * offset; index < 0; index++)
        toTheLeft ==
            [step \in 1 .. offset |->
                LET index == -1 * offset + (step - 1)
                IN  DrawStraightWall(m, sprites,
                        GetPositionLeftOfThis(basePoint, -1 * index),
                        range, index)]
        \* for (index = offset; index > 0; index--)
        toTheRight ==
            [step \in 1 .. offset |->
                LET index == offset - (step - 1)
                IN  DrawStraightWall(m, sprites,
                        GetPositionRightOfThis(basePoint, index),
                        range, index)]
    IN  toTheLeft \o toTheRight
            \o <<DrawLeftWall(m, sprites, basePoint, range, 0),
                 DrawRightWall(m, sprites, basePoint, range, 0),
                 DrawStraightWall(m, sprites, basePoint, range, 0)>>

\* variant: near ranks are drawn first
RenderMap_NearFirst(m, sprites, currentPosition) ==
    <<DrawSky, DrawGround>>
        \o DrawDistRank(m, sprites, currentPosition, 0, 1)
        \o DrawDistRank(m, sprites, currentPosition, 1, 1)
        \o DrawDistRank(m, sprites, currentPosition, 2, 1)

RenderMap(m, sprites, currentPosition) ==
    <<DrawSky, DrawGround>>
        \o DrawDistRank(m, sprites, currentPosition, 2, 1)
        \o DrawDistRank(m, sprites, currentPosition, 1, 1)
        \o DrawDistRank(m, sprites, currentPosition, 0, 1)

----------------------------------------------------------------------------
(* MiniMap *)

\* variant: the cell of the starting point counts as visited
IsVisited_StartCell(m, column, row) == column = 1 /\ row = 1

IsVisited(m, column, row) == FALSE

\* variant: the player's cell is looked for before the visited mark
RecreateMiniMapSurface_PlayerFirst(m, position) ==
    LET playerZ == position.y
        playerX == position.x
    IN  [cell \in GridCells(m) |->
            LET column == cell[1]
                row    == cell[2]
            IN  IF row = playerZ /\ column = playerX
                THEN "playerCellColor"
                ELSE IF IsVisited(m, column, row)
                     THEN "visitedCellColor"
                     ELSE "notVisitedCellColor"]

\* the colour of the last SDL_FillRect of every cell <<column, row>>, on a
\* mini-map whose surface the constructor has created
RecreateMiniMapSurface(m, position) ==
    LET playerZ == position.y
        playerX == position.x
    IN  [cell \in GridCells(m) |->
            LET column == cell[1]
                row    == cell[2]
            IN  IF IsVisited(m, column, row)
                THEN IF row = playerZ /\ column = playerX
                     THEN "playerCellColor"
                     ELSE "visitedCellColor"
                ELSE "notVisitedCellColor"]

----------------------------------------------------------------------------
(* SpecView: the engine.  Initialize() starts the game once, Execute()     *)
(* moves the player on key presses and redraws the display.                *)

\* the display update of Engine::Execute: RenderMap, then miniMap.Update()
UpdateDisplay ==
    /\ ~Crashed
    /\ last' = [Did("UpdateDisplay", FALSE) EXCEPT
                   !.frame = RenderMap(currentMap, allWallSprites,
                                       playerPosition),
                   !.cells = RecreateMiniMapSurface(currentMap,
                                                    playerPosition)]
    /\ UNCHANGED <<build, currentMap, playerPosition, edits, allWallSprites,
                   loop>>

InitView ==
    /\ build = "undetermined"
    /\ currentMap = NullMap
    /\ playerPosition = Position(0, 0, 0)
    /\ last = NoOp
    /\ edits = 0
    /\ \E missing \in MissingFileSets : allWallSprites = LoadArt(missing)
    /\ loop = ExecuteLocals

Initialize == currentMap.null /\ StartNewGame

Execute ==
    /\ ~currentMap.null
    /\ \/ MovePlayerForward
       \/ MovePlayerBack
       \/ MovePlayerLeft
       \/ MovePlayerRight
       \/ TurnPlayerLeft
       \/ TurnPlayerRight
       \/ UpdateDisplay

NextView == Initialize \/ Execute

SpecView == InitView /\ [][NextView]_vars

----------------------------------------------------------------------------
(* C15 -- The corridor renderer draws far before near: in every RenderMap  *)
(* call the sky fill and the ground fill come first, then every draw       *)
(* attempt of depth rank 2 precedes every draw attempt of rank 1, which    *)
(* precede every draw attempt of rank 0; within one rank the order is      *)
(* left-lateral front wall, right-lateral front wall, centre left-side     *)
(* wall, centre right-side wall, centre front wall.                        *)

Rendered == last.op = "UpdateDisplay"

\* the indices of the draw attempts of rank range in frame
AttemptsOfRank(frame, range) ==
    {i \in 1 .. Len(frame) : ~frame[i].fill /\ frame[i].range = range}

\* the calls and lateral indices of the attempts of one rank, in order
RankOrder ==
    <<<<"DrawStraightWall", -1>>, <<"DrawStraightWall", 1>>,
      <<"DrawLeftWall", 0>>, <<"DrawRightWall", 0>>,
      <<"DrawStraightWall", 0>>>>

C15_FarBeforeNear ==
    Rendered =>
        LET frame == last.frame
        IN  /\ Len(frame) >= 2
            /\ frame[1].call = "DrawSky" /\ frame[1].fill
            /\ frame[2].call = "DrawGround" /\ frame[2].fill
            /\ \A i \in 3 .. Len(frame) : ~frame[i].fill
            /\ \A i, j \in 3 .. Len(frame) :
                  i < j => frame[i].range >= frame[j].range
            /\ \A range \in 0 .. 2 :
                  LET first == (2 - range) * Len(RankOrder) + 2
                  IN  /\ AttemptsOfRank(frame, range)
                            = first + 1 .. first + Len(RankOrder)
                      /\ \A k \in 1 .. Len(RankOrder) :
                            /\ frame[first + k].call = RankOrder[k][1]
                            /\ frame[first + k].offset = RankOrder[k][2]

\* a frame in which walls of all three ranks are blitted
C15_Witness ==
    /\ Rendered
    /\ \A range \in 0 .. 2 :
          \E i \in AttemptsOfRank(last.frame, range) : last.frame[i].blit

----------------------------------------------------------------------------
(* C16 -- For a player at position p with facing f, one RenderMap call     *)
(* queries exactly these map faces and no others, for each rank r in       *)
(* {2,1,0} with base = p.ahead(r): (base.stepLeft(1), f) with lateral      *)
(* index -1, (base.stepRight(1), f) with lateral index +1, (base, (f+3)    *)
(* mod 4) using the left sprite family, (base, (f+1) mod 4) using the      *)
(* right sprite family, and (base, f) using the front family with lateral  *)
(* index 0; each blit uses the offset table of the same family and rank.   *)

\* the faces one rank asks for, in drawing order, each with its lateral
\* index, its sprite family and its blit destination
FacesOfRank(p, r) ==
    LET f     == p.facing
        left  == (f + 3) % 4
        right == (f + 1) % 4
        baseX == p.x + r * StepX(f)
        baseY == p.y + r * StepY(f)
    IN  <<[query |-> Position(baseX + StepX(left), baseY + StepY(left), f),
           offset |-> -1, family |-> "front",
           destX |-> GetXOffsetCenter(r, -1),
           destY |-> GetYOffsetCenter(r, -1)],
          [query |-> Position(baseX + StepX(right), baseY + StepY(right), f),
           offset |-> 1, family |-> "front",
           destX |-> GetXOffsetCenter(r, 1),
           destY |-> GetYOffsetCenter(r, 1)],
          [query |-> Position(baseX, baseY, left),
           offset |-> 0, family |-> "left",
           destX |-> GetXOffsetLeft(r, 0),
           destY |-> GetYOffsetLeft(r, 0)],
          [query |-> Position(baseX, baseY, right),
           offset |-> 0, family |-> "right",
           destX |-> GetXOffsetRight(r, 0),
           destY |-> GetYOffsetRight(r, 0)],
          [query |-> Position(baseX, baseY, f),
           offset |-> 0, family |-> "front",
           destX |-> GetXOffsetCenter(r, 0),
           destY |-> GetYOffsetCenter(r, 0)]>>

C16_QueriedFaces ==
    Rendered =>
        LET frame == last.frame
        IN  /\ Len(frame) = 2 + 3 * 5
            /\ \A r \in 0 .. 2, k \in 1 .. 5 :
                  LET attempt == frame[2 + (2 - r) * 5 + k]
                      face    == FacesOfRank(playerPosition, r)[k]
                  IN  /\ attempt.range = r
                      /\ attempt.query = face.query
                      /\ attempt.offset = face.offset
                      /\ attempt.wall =
                             GetWallForCoordinate(currentMap, face.query)
                      /\ attempt.blit =>
                            /\ attempt.image =
                                   ImageOf(<<attempt.wall, face.family, r>>)
                            /\ attempt.destX = face.destX
                            /\ attempt.destY = face.destY

\* a frame that blits a left, a right and a lateral front image, and asks
\* for a face of a cell beyond the map edge
C16_Witness ==
    /\ Rendered
    /\ \E i, j, k \in 3 .. Len(last.frame) :
          /\ last.frame[i].blit /\ last.frame[i].call = "DrawLeftWall"
          /\ last.frame[j].blit /\ last.frame[j].call = "DrawRightWall"
          /\ last.frame[k].blit /\ last.frame[k].offset = -1
    /\ \E i \in 3 .. Len(last.frame) :
          OutOfRange(currentMap, last.frame[i].query)

----------------------------------------------------------------------------
(* C17 -- When every face the renderer queries for ranks 0, 1 and 2 has    *)
(* wall id 0 (a wall-free corridor, or cells beyond the map edge),         *)
(* RenderMap issues zero sprite blits and still issues exactly the two     *)
(* backdrop fills (sky, then ground).                                      *)

\* no face asked for in the frame carries a wall id
WallFree(frame) == \A i \in 1 .. Len(frame) : frame[i].wall = 0

C17_WallFreeFrame ==
    (Rendered /\ WallFree(last.frame)) =>
        LET frame == last.frame
        IN  /\ \A i \in 1 .. Len(frame) : ~frame[i].blit
            /\ {i \in 1 .. Len(frame) : frame[i].fill} = {1, 2}
            /\ frame[1].call = "DrawSky"
            /\ frame[2].call = "DrawGround"

\* a wall-free frame drawn with every image loaded
C17_Witness ==
    /\ Rendered
    /\ WallFree(last.frame)
    /\ Len(last.frame) > 2
    /\ allWallSprites = LoadArt({})

----------------------------------------------------------------------------
(* C18 -- Each draw step of a frame issues exactly one blit iff the        *)
(* queried wall id is in [1, number of sprite sets] (GetWallSetNumber      *)
(* returns null for 0 and for any id above the count) and that set's image *)
(* for the step's family and rank is non-null; otherwise it issues no      *)
(* blit, and in either case all remaining draw steps of the frame are      *)
(* still executed, so a frame always performs all 15 draw attempts.        *)

\* the image array of sprite set number wall that a drawing call reads
ImagesFor(sprites, wall, call) ==
    CASE call = "DrawLeftWall"  -> sprites[wall].leftImages
      [] call = "DrawRightWall" -> sprites[wall].rightImages
      [] OTHER                  -> sprites[wall].frontImages

C18_BlitIffSetAndImage ==
    /\ \A which \in -1 .. Len(allWallSprites) + 2 :
          (GetWallSetNumber(allWallSprites, which) = NullSet)
              <=> which \notin 1 .. Len(allWallSprites)
    /\ Rendered =>
          LET frame == last.frame
          IN  /\ Cardinality({i \in 1 .. Len(frame) : ~frame[i].fill}) = 15
              /\ \A i \in 1 .. Len(frame) :
                    ~frame[i].fill =>
                        LET attempt == frame[i]
                            hasSet  == attempt.wall
                                           \in 1 .. Len(allWallSprites)
                        IN  /\ attempt.blit <=>
                                  /\ hasSet
                                  /\ ImagesFor(allWallSprites, attempt.wall,
                                               attempt.call)[attempt.range]
                                         # NullImage
                            /\ attempt.blit =>
                                  attempt.image =
                                      ImagesFor(allWallSprites, attempt.wall,
                                                attempt.call)[attempt.range]

\* a frame in which one wall is blitted and another wall is not, its image
\* having failed to load
C18_Witness ==
    /\ Rendered
    /\ \E i, j \in 3 .. Len(last.frame) :
          /\ last.frame[i].blit
          /\ last.frame[j].wall # 0 /\ ~last.frame[j].blit

----------------------------------------------------------------------------
(* C19 -- For every integer depth rank outside the populated range         *)
(* 0..visibleDepth-1 (including rank == visibleDepth and negative ranks),  *)
(* GetFrontImage, GetLeftImage and GetRightImage return null and read no   *)
(* slot of the image arrays; for ranks 0..visibleDepth-1 they return the   *)
(* image loaded for that rank.                                             *)

C19_ImageGettersClamp ==
    last.op = "GetImage" =>
        /\ ~Crashed
        /\ IF last.range \in 0 .. VisibleDepth - 1
           THEN last.value =
                    ImagesFor(allWallSprites, last.which,
                              CASE last.family = "left"  -> "DrawLeftWall"
                                [] last.family = "right" -> "DrawRightWall"
                                [] OTHER -> "DrawStraightWall")[last.range]
           ELSE last.value = NullImage /\ ~last.read

----------------------------------------------------------------------------
(* C20 -- On every mini-map Update(), the cell whose (column,row) equals   *)
(* the player's current (x,y) is filled with the player colour, and every  *)
(* other cell with the visited colour if IsVisited(column,row) and the     *)
(* unvisited colour otherwise; in particular after any sequence of moves   *)
(* exactly one cell, the player's, shows the player colour.                *)

PlayerCell == <<playerPosition.x, playerPosition.y>>

\* C20 as stated
C20_PlayerCellShown ==
    Rendered =>
        /\ DOMAIN last.cells = GridCells(currentMap)
        /\ \A cell \in GridCells(currentMap) :
              last.cells[cell] =
                  IF cell = PlayerCell THEN "playerCellColor"
                  ELSE IF IsVisited(currentMap, cell[1], cell[2])
                       THEN "visitedCellColor"
                       ELSE "notVisitedCellColor"
        /\ {cell \in GridCells(currentMap) :
               last.cells[cell] = "playerCellColor"} = {PlayerCell}

\* C20 amended: a cell is filled with the player colour only if it is
\* visited and is the player's, with the visited colour if it is visited
\* and is not the player's, and with the unvisited colour otherwise; no
\* cell being visited, every cell, the player's too, shows the unvisited
\* colour
C20_PlayerCellShownOnlyIfVisited ==
    Rendered =>
        /\ DOMAIN last.cells = GridCells(currentMap)
        /\ \A cell \in GridCells(currentMap) :
              /\ last.cells[cell] = "playerCellColor"
                    <=> /\ IsVisited(currentMap, cell[1], cell[2])
                        /\ cell = PlayerCell
              /\ last.cells[cell] = "visitedCellColor"
                    <=> /\ IsVisited(currentMap, cell[1], cell[2])
                        /\ cell # PlayerCell
              /\ last.cells[cell] = "notVisitedCellColor"
                    <=> ~IsVisited(currentMap, cell[1], cell[2])
        /\ PlayerCell \in GridCells(currentMap)
        /\ \A cell \in GridCells(currentMap) :
              last.cells[cell] = "notVisitedCellColor"

\* the mini-map has been updated with the player away from the start
C20_Witness ==
    /\ Rendered
    /\ PlayerCell \in GridCells(currentMap)
    /\ PlayerCell # <<1, 1>>
    /\ last.cells[PlayerCell] = "notVisitedCellColor"

----------------------------------------------------------------------------
(* C21 -- IsVisited(column,row) returns false for every column and row in  *)
(* every reachable game state, including for the cell the player occupies  *)
(* and for cells the player has previously occupied; no move, turn or      *)
(* StartNewGame ever makes it return true.                                 *)

C21_NeverVisited ==
    Started =>
        /\ \A cell \in Around(currentMap) :
              ~IsVisited(currentMap, cell[1], cell[2])
        /\ ~IsVisited(currentMap, playerPosition.x, playerPosition.y)

\* the player has just stepped forward out of a cell, two or more cells
\* away from the start
C21_Witness ==
    /\ Started
    /\ last.op = "MovePlayerForward"
    /\ last.ret
    /\ playerPosition.x > 2
    /\ playerPosition.y > 2

----------------------------------------------------------------------------
(* SpecPosition: a Position of small coordinates and any facing value, to  *)
(* which the methods of Position are applied one after the other           *)

\* the coordinates are in -MaxCoordinate .. MaxCoordinate
MaxCoordinate == 2
\* the step counts are in -MaxSteps .. MaxSteps
MaxSteps == 2
\* the facing values are in 0 .. MaxFacing: the player facings, the wall
\* facings and a value that is neither
MaxFacing == 5

Coordinates == -MaxCoordinate .. MaxCoordinate

\* the method op has been applied to playerPosition with argument steps
\* and has returned result, which becomes the Position looked at
Applied(op, steps, result) ==
    /\ result.x \in Coordinates
    /\ result.y \in Coordinates
    /\ playerPosition' = result
    /\ last' = [Did(op, FALSE) EXCEPT
                   !.position = playerPosition,
                   !.value = steps,
                   !.result = result]
    /\ UNCHANGED <<build, currentMap, edits, allWallSprites, loop>>

CallGetLeftFacingOfThis ==
    Applied("GetLeftFacingOfThis", 0, GetLeftFacingOfThis(playerPosition))

CallGetRightFacingOfThis ==
    Applied("GetRightFacingOfThis", 0, GetRightFacingOfThis(playerPosition))

CallGetPositionLeftOfThis ==
    \E steps \in -MaxSteps .. MaxSteps :
        Applied("GetPositionLeftOfThis", steps,
                GetPositionLeftOfThis(playerPosition, steps))

CallGetPositionRightOfThis ==
    \E steps \in -MaxSteps .. MaxSteps :
        Applied("GetPositionRightOfThis", steps,
                GetPositionRightOfThis(playerPosition, steps))

CallGetPositionAheadOfThis ==
    \E steps \in -MaxSteps .. MaxSteps :
        Applied("GetPositionAheadOfThis", steps,
                GetPositionAheadOfThis(playerPosition, steps))

CallGetPositionBehindThis ==
    \E steps \in -MaxSteps .. MaxSteps :
        Applied("GetPositionBehindThis", steps,
                GetPositionBehindThis(playerPosition, steps))

InitPosition ==
    /\ build = "undetermined"
    /\ currentMap = NullMap
    /\ \E x \in Coordinates, y \in Coordinates, facing \in 0 .. MaxFacing :
          playerPosition = Position(x, y, facing)
    /\ last = NoOp
    /\ edits = 0
    /\ allWallSprites = LoadArt({})
    /\ loop = ExecuteLocals

NextPosition ==
    \/ CallGetLeftFacingOfThis
    \/ CallGetRightFacingOfThis
    \/ CallGetPositionLeftOfThis
    \/ CallGetPositionRightOfThis
    \/ CallGetPositionAheadOfThis
    \/ CallGetPositionBehindThis

SpecPosition == InitPosition /\ [][NextPosition]_vars

----------------------------------------------------------------------------
(* C22 -- For every Position p with any x, y and any facing value f the    *)
(* program constructs (player facings 0..3 and the wall-facing constants), *)
(* p.GetLeftFacingOfThis().GetRightFacingOfThis() has facing f, and        *)
(* applying GetLeftFacingOfThis() four times yields facing f; both leave x *)
(* and y unchanged.                                                        *)

\* the facing values the program constructs Positions with
ConstructedFacings == FaceSlots \cup WallFacings

FourTimesLeft(p) ==
    GetLeftFacingOfThis(GetLeftFacingOfThis(
        GetLeftFacingOfThis(GetLeftFacingOfThis(p))))

C22_RotationsCancel ==
    playerPosition.facing \in ConstructedFacings =>
        /\ GetRightFacingOfThis(GetLeftFacingOfThis(playerPosition))
               = playerPosition
        /\ FourTimesLeft(playerPosition) = playerPosition

----------------------------------------------------------------------------
(* C23 -- For every Position p, every facing and every step count n        *)
(* (positive, zero or negative), p.GetPositionAheadOfThis(n)               *)
(* .GetPositionBehindThis(n) has the same x and y as p and the same        *)
(* facing.                                                                 *)

C23_AheadThenBehind ==
    /\ [](\A steps \in -MaxSteps .. MaxSteps :
             GetPositionBehindThis(
                 GetPositionAheadOfThis(playerPosition, steps), steps)
                 = playerPosition)
    /\ [][(/\ last.op = "GetPositionAheadOfThis"
           /\ last'.op = "GetPositionBehindThis"
           /\ last'.value = last.value)
          => playerPosition' = last.position]_vars

\* GetPositionBehindThis with a negative step count has just taken back a
\* step of GetPositionAheadOfThis that had moved the Position
C23_Witness ==
    /\ last.op = "GetPositionBehindThis"
    /\ last.value < 0
    /\ last.position = GetPositionAheadOfThis(playerPosition, last.value)
    /\ last.position # playerPosition

----------------------------------------------------------------------------
(* C30 -- For every Position p with facing in 0..3 and every step count n, *)
(* p.GetPositionLeftOfThis(n) has the same (x,y) as                        *)
(* p.GetLeftFacingOfThis().GetPositionAheadOfThis(n) and                   *)
(* p.GetPositionRightOfThis(n) the same (x,y) as                           *)
(* p.GetRightFacingOfThis().GetPositionAheadOfThis(n), both keeping p's    *)
(* facing; so the face tested by a strafe is the face of the cell boundary *)
(* the strafe actually crosses.                                            *)

SameCell(p, q) == p.x = q.x /\ p.y = q.y

SidewaysIsAheadAfterTurning(p, steps) ==
    /\ SameCell(GetPositionLeftOfThis(p, steps),
                GetPositionAheadOfThis(GetLeftFacingOfThis(p), steps))
    /\ GetPositionLeftOfThis(p, steps).facing = p.facing
    /\ SameCell(GetPositionRightOfThis(p, steps),
                GetPositionAheadOfThis(GetRightFacingOfThis(p), steps))
    /\ GetPositionRightOfThis(p, steps).facing = p.facing

C30_SidewaysIsAheadAfterTurning ==
    /\ [](playerPosition.facing \in FaceSlots =>
             \A steps \in -MaxSteps .. MaxSteps :
                 SidewaysIsAheadAfterTurning(playerPosition, steps))
    /\ [][(/\ playerPosition.facing \in FaceSlots
           /\ last'.op = "GetPositionLeftOfThis")
          => /\ SameCell(playerPosition',
                    GetPositionAheadOfThis(
                        GetLeftFacingOfThis(playerPosition), last'.value))
             /\ playerPosition'.facing = playerPosition.facing]_vars
    /\ [][(/\ playerPosition.facing \in FaceSlots
           /\ last'.op = "GetPositionRightOfThis")
          => /\ SameCell(playerPosition',
                    GetPositionAheadOfThis(
                        GetRightFacingOfThis(playerPosition), last'.value))
             /\ playerPosition'.facing = playerPosition.facing]_vars

\* GetPositionLeftOfThis has just moved a Position with a facing in 0..3
\* to another cell
C30_Witness ==
    /\ last.op = "GetPositionLeftOfThis"
    /\ last.position.facing \in FaceSlots
    /\ last.value # 0
    /\ ~SameCell(playerPosition, last.position)
    /\ playerPosition = last.result

----------------------------------------------------------------------------
(* C24 -- The player's facing is in {0,1,2,3} in every state reachable     *)
(* from GameState construction by any sequence of StartNewGame, move and   *)
(* turn operations.                                                        *)

C24_FacingInRange == playerPosition.facing \in 0 .. 3


\* TurnPlayerRight has just taken the player, in a cell other than the
\* starting cell, from West round to North
C24_Witness ==
    /\ Started
    /\ last.op = "TurnPlayerRight"
    /\ playerPosition.facing = PLAYER_FACING_NORTH
    /\ ~SameCell(playerPosition, GetStartingPoint(currentMap, 0))

----------------------------------------------------------------------------
(* C26 -- MakeFirstMockup builds walls all around the map border:          *)
(* afterwards the inward face of every outermost-ring cell carries         *)
(* WALL_TYPE_STONE and is impassable, i.e. the East face of every cell in  *)
(* column 0, the West face of every cell in column width-1, the South face *)
(* of every cell in row 0 and the North face of every cell in row          *)
(* height-1.                                                               *)

StoneFace(m, x, y, facing) ==
    /\ GetWallForCoordinate(m, Position(x, y, facing)) = WALL_TYPE_STONE
    /\ ~CanPassWallForCoordinate(m, Position(x, y, facing))

C26_BorderWalled ==
    Started =>
        /\ \A row \in 0 .. currentMap.height - 1 :
              /\ StoneFace(currentMap, 0, row, PLAYER_FACING_EAST)
              /\ StoneFace(currentMap, currentMap.width - 1, row,
                           PLAYER_FACING_WEST)
        /\ \A column \in 0 .. currentMap.width - 1 :
              /\ StoneFace(currentMap, column, 0, PLAYER_FACING_SOUTH)
              /\ StoneFace(currentMap, column, currentMap.height - 1,
                           PLAYER_FACING_NORTH)

----------------------------------------------------------------------------
(* C27 -- Every read or write of the wall and passability tables uses a    *)
(* face index in 0..3, the size the tables are allocated with: this holds  *)
(* for each MakeNormalWall and RemoveWall call issued by MakeFirstMockup   *)
(* and for every GetWallForCoordinate / CanPassWallForCoordinate query     *)
(* made by the game state and the renderer.                                *)

\* no store of the mockup went to a face index outside 0..3 (recorded in
\* stray, or fatal where the build traps it), and the face the moves query
\* is one of the four
C27_FaceIndexInTable ==
    /\ \A store \in currentMap.stray : store[3] \in FaceSlots
    /\ last.op = "StartNewGame" => ~currentMap.fault
    /\ playerPosition.facing \in FaceSlots

----------------------------------------------------------------------------
(* C28 -- On the mockup map, for every cell the player can reach from the  *)
(* start by any sequence of moves and turns, and for each of its four      *)
(* faces, the face is impassable iff it carries a non-zero wall id: there  *)
(* is no invisible blocking face and no drawn wall the player can walk     *)
(* through.                                                                *)

\* the player stands on every reachable cell in some reachable state
C28_BlockedIffWalled ==
    Started =>
        \A facing \in FaceSlots :
            LET face == Position(playerPosition.x, playerPosition.y, facing)
            IN  ~CanPassWallForCoordinate(currentMap, face)
                    <=> GetWallForCoordinate(currentMap, face) # 0

----------------------------------------------------------------------------
(* C29 -- On the mockup map, passability is symmetric along every path the *)
(* player can take: whenever MovePlayerForward() returns true from a       *)
(* reachable state, an immediately following MovePlayerBack() also returns *)
(* true and restores the player's previous x, y and facing (and likewise   *)
(* MovePlayerLeft() followed by MovePlayerRight()).                        *)

\* the face MovePlayerBack tests from position p
BackFace(p) == GetLeftFacingOfThis(GetLeftFacingOfThis(p))

C29_MoveCanBeTakenBack ==
    /\ [][(last'.op = "MovePlayerForward" /\ last'.ret)
          => /\ CanPassWallForCoordinate(currentMap', BackFace(playerPosition'))
             /\ GetPositionBehindThis(playerPosition', 1) = playerPosition]_vars
    /\ [][(last'.op = "MovePlayerLeft" /\ last'.ret)
          => /\ CanPassWallForCoordinate(currentMap',
                    GetRightFacingOfThis(playerPosition'))
             /\ GetPositionRightOfThis(playerPosition', 1) = playerPosition]_vars
    /\ [][(last.op = "MovePlayerForward" /\ last.ret
              /\ last'.op = "MovePlayerBack") => last'.ret]_vars
    /\ [][(last.op = "MovePlayerLeft" /\ last.ret
              /\ last'.op = "MovePlayerRight") => last'.ret]_vars


\* MovePlayerForward has just succeeded into the last row of the mockup
C29_Witness ==
    /\ Started
    /\ last.op = "MovePlayerForward"
    /\ last.ret
    /\ playerPosition.y = currentMap.height - 1
    /\ CanPassWallForCoordinate(currentMap, BackFace(playerPosition))

----------------------------------------------------------------------------
(* SpecLoop: the main loop of Engine::Execute.  Initialize() starts the    *)
(* game; each pass of the loop first polls the pending events (PollKeyDown,*)
(* PollKeyUp, PollTurnKeyUp, one event each) and then runs the rest of the *)
(* loop body (LoopBody): the player motion, the message timer and the      *)
(* display update.                                                         *)

\* the passes of the main loop a run is followed for, and the events it
\* delivers
MaxIterations == 10
MaxEvents     == 4

Running == ~currentMap.null /\ ~Crashed /\ loop.iteration < MaxIterations

\* SDL_PollEvent(event_) returns an event
Polled == Running /\ loop.events < MaxEvents

\* case SDL_KEYDOWN, a motion key
PollKeyDown ==
    /\ Polled
    /\ \E button \in MotionButtons :
          loop' = [loop EXCEPT !.motionButtonDown[button] = TRUE,
                               !.events = @ + 1]
    /\ last' = Did("KeyDown", FALSE)
    /\ UNCHANGED <<build, currentMap, playerPosition, edits, allWallSprites>>

\* case SDL_KEYUP, a motion key
PollKeyUp ==
    /\ Polled
    /\ \E button \in MotionButtons :
          loop' = [loop EXCEPT !.motionButtonDown[button] = FALSE,
                               !.events = @ + 1]
    /\ last' = Did("KeyUp", FALSE)
    /\ UNCHANGED <<build, currentMap, playerPosition, edits, allWallSprites>>

\* case SDL_KEYUP, a turn key: the turn is made at once
PollTurnKeyUp ==
    /\ Polled
    /\ \/ /\ playerPosition' = GetLeftFacingOfThis(playerPosition)
          /\ last' = Did("TurnPlayerLeft", FALSE)
       \/ /\ playerPosition' = GetRightFacingOfThis(playerPosition)
          /\ last' = Did("TurnPlayerRight", FALSE)
    /\ loop' = [loop EXCEPT !.requestUpdateDisplay = TRUE, !.events = @ + 1]
    /\ UNCHANGED <<build, currentMap, edits, allWallSprites>>

\* the move of GameState a motion button calls: the face it tests and the
\* position it assigns when the face is passable
TestedFace(button, p) ==
    CASE button = MOTIONBUTTON_UP          -> p
      [] button = MOTIONBUTTON_DOWN        ->
             GetLeftFacingOfThis(GetLeftFacingOfThis(p))
      [] button = MOTIONBUTTON_STRAFELEFT  -> GetLeftFacingOfThis(p)
      [] button = MOTIONBUTTON_STRAFERIGHT -> GetRightFacingOfThis(p)

Destination(button, p) ==
    CASE button = MOTIONBUTTON_UP          -> GetPositionAheadOfThis(p, 1)
      [] button = MOTIONBUTTON_DOWN        -> GetPositionBehindThis(p, 1)
      [] button = MOTIONBUTTON_STRAFELEFT  -> GetPositionLeftOfThis(p, 1)
      [] button = MOTIONBUTTON_STRAFERIGHT -> GetPositionRightOfThis(p, 1)

MovePlayer(m, button, p) ==
    IF CanPassWallForCoordinate(m, TestedFace(button, p))
    THEN Destination(button, p)
    ELSE p

\* the four  if (motionButtonDown[..])  blocks, from block button on;
\* counter is playerMotionCounter, position the player's position and
\* fired the buttons whose move has been called in this pass
RECURSIVE PlayerMotion(_, _, _, _, _, _)
PlayerMotion(m, down, button, counter, position, fired) ==
    IF button > MOTIONBUTTON_STRAFERIGHT
    THEN [counter |-> counter, position |-> position, fired |-> fired]
    ELSE IF ~down[button]
    THEN PlayerMotion(m, down, button + 1, counter, position, fired)
    ELSE IF counter - 1 <= 0
    THEN PlayerMotion(m, down, button + 1, playerMotionDelay,
                      MovePlayer(m, button, position), fired \cup {button})
    ELSE PlayerMotion(m, down, button + 1, counter - 1, position, fired)

\* the loop body after the events
LoopBody ==
    /\ Running
    /\ LET motion == PlayerMotion(currentMap, loop.motionButtonDown,
                                  MOTIONBUTTON_UP, loop.playerMotionCounter,
                                  playerPosition, {})
           pass   == loop.iteration + 1
           clear  == loop.actionMessageClearCounter - 1 <= 0
           update == \/ loop.requestUpdateDisplay
                     \/ motion.fired # {}
                     \/ clear
       IN  /\ playerPosition' = motion.position
           /\ loop' =
                  [loop EXCEPT
                     !.playerMotionCounter = motion.counter,
                     !.actionMessageClearCounter =
                         IF clear THEN actionMessageClearDelay ELSE @ - 1,
                     !.requestUpdateDisplay = FALSE,
                     !.iteration = pass,
                     !.attempted =
                         [button \in MotionButtons |->
                             IF button \in motion.fired THEN pass
                             ELSE @[button]]]
           /\ last' =
                  [Did("Execute", update) EXCEPT
                     !.position = playerPosition,
                     !.frame = IF update
                               THEN RenderMap(currentMap, allWallSprites,
                                              motion.position)
                               ELSE <<>>,
                     !.cells = IF update
                               THEN RecreateMiniMapSurface(currentMap,
                                                           motion.position)
                               ELSE <<>>]
    /\ UNCHANGED <<build, currentMap, edits, allWallSprites>>

InitLoop ==
    /\ build = "undetermined"
    /\ currentMap = NullMap
    /\ playerPosition = Position(0, 0, 0)
    /\ last = NoOp
    /\ edits = 0
    /\ allWallSprites = LoadArt({})
    /\ loop = ExecuteLocals

NextLoop ==
    \/ Initialize
    \/ PollKeyDown
    \/ PollKeyUp
    \/ PollTurnKeyUp
    \/ LoopBody

SpecLoop == InitLoop /\ [][NextLoop]_vars

----------------------------------------------------------------------------
(* C25 -- Each motion key is repeat-gated by the fixed cooldown of 10      *)
(* main-loop iterations: in every execution of the main loop, two attempts *)
(* of the same movement operation (forward, back, strafe-left or           *)
(* strafe-right) are never fewer than 10 iterations apart, whichever other *)
(* motion keys are held at the same time and however keys were pressed and *)
(* released before.                                                        *)

\* the pass just made called the move of button
Attempts(button) ==
    /\ loop'.iteration = loop.iteration + 1
    /\ loop'.attempted[button] = loop'.iteration

C25_MotionCooldown ==
    [][\A button \in MotionButtons :
          (Attempts(button) /\ loop.attempted[button] # 0)
              => loop'.iteration - loop.attempted[button]
                     >= playerMotionDelay]_vars

====
